---- MODULE Spec2Model ----
(***************************************************************************)
(* Model of server/ComputeNucleiFeatures/ComputeNucleiFeatures.py: the     *)
(* run coordinator main(args), which validates its arguments, creates a    *)
(* Dask client, opens the slide, computes the foreground fraction of every *)
(* tile, builds one delayed per-tile task per surviving tile, computes the *)
(* batch, aggregates the per-tile results and writes the output files.     *)
(*                                                                         *)
(* Fractions are integers k standing for k / FracScale, so that 1.0 is     *)
(* FracScale.  An annotation and a feature row are records naming the tile *)
(* that produced them and their emission number inside that tile.          *)
(***************************************************************************)
EXTENDS Integers, Sequences, FiniteSets

\* ---------------------------------------------------------------- bounds

\* Largest number of tiles the tile source yields for a region.
MaxTiles == 2

\* Largest number of annotations, and of feature rows, one tile produces.
MaxNuclei == 1

\* Fractions are k / FracScale for k in 0..FracScale.
FracScale == 1

\* Width and height of the slide, in base pixels.
SlideSize == 2

\* ---------------------------------------------------------------- inputs

Vec(n) == [i \in 1..n |-> 0]

\* The analysis_roi vectors tried: the whole-image sentinel, a region inside
\* the slide, a vector mixing -1 with real bounds, a region with a negative
\* width that also extends below the slide, and two vectors of a wrong length.
RoiChoices ==
    { <<-1, -1, -1, -1>>,
      <<0, 0, 1, 1>>,
      <<-1, -1, 1, 1>>,
      <<0, 0, -2, SlideSize + 1>>,
      <<0, 0, 1>>,
      <<0, 0, 1, 1, 1>> }

ArgsSet ==
    [ inputImageFile_isfile      : BOOLEAN,
      reference_mu_lab           : {Vec(2), Vec(3)},
      reference_std_lab          : {Vec(3), Vec(4)},
      analysis_roi               : RoiChoices,
      min_fgnd_frac              : 0..FracScale,
      outputNucleiAnnotationFile : BOOLEAN ]

Fractions == 0..FracScale

\* ---------------------------------------------------------------- state

VARIABLES
    args,                 \* the parsed CLI arguments (never modified)
    pc,                   \* position of main
    exc,                  \* the exception that ended main, or "none"; for an
                          \* exception out of line 236-252 the statement
                          \* that raised it
    process_whole_image,  \* line 106-109
    client_acquired,      \* number of Dask clients created
    client_held,          \* a created client has not been closed
    ts_open,              \* the tile source of main has been opened
    is_wsi,               \* line 131
    grid_tiles,           \* tiles the tile source yields for it_kwargs
    mask_computed,        \* im_fgnd_mask_lres, fgnd_seg_scale are bound
    tile_fgnd_frac_list,  \* line 146 / 173
    it_kwargs,            \* line 148-161: the region entry
    num_tiles,            \* line 169
    num_fgnd_tiles,       \* line 178
    grid_planned,         \* the tile source was asked for the tile grid
    iterPos,              \* next position the tile iterator yields
    tile_result_list,     \* line 197-215
    finished,             \* the scheduler's results, in completion order
    nuclei_annot_list,    \* line 217
    nuclei_fdata,         \* line 221
    annotation_file_writes,
    feature_file_writes,
    frac_computed,        \* compute_tile_foreground_fraction was called
    nuclei_fdata_columns, \* the column names of nuclei_fdata
    feature_file_columns, \* the header of the feature file line 252 wrote
                          \* to its end
    annotation_file,      \* the file at outputNucleiAnnotationFile, as this
                          \* run left it: "untouched", "truncated" (opened
                          \* for writing, nothing whole in it), "document"
                          \* (it holds the annotation document) or "table"
                          \* (it holds the feature table)
    feature_file,         \* the file at outputFile, as this run left it,
                          \* with the same values
    outputFile            \* args.outputFile as main has met it: "unread"
                          \* until a statement depends on it; "same_file"
                          \* once line 244 has opened the file it names;
                          \* at line 252 "none" (None) or "own_file" (the
                          \* path of a file of its own)

vars == << args, pc, exc, process_whole_image, client_acquired, client_held,
           ts_open, is_wsi, grid_tiles, mask_computed, tile_fgnd_frac_list,
           it_kwargs, num_tiles, num_fgnd_tiles, grid_planned, iterPos,
           tile_result_list, finished, nuclei_annot_list, nuclei_fdata,
           annotation_file_writes, feature_file_writes, frac_computed,
           nuclei_fdata_columns, feature_file_columns, annotation_file,
           feature_file, outputFile >>

\* ---------------------------------------------------------------- helpers

RECURSIVE Flatten(_)
Flatten(ss) == IF ss = << >> THEN << >> ELSE Head(ss) \o Flatten(Tail(ss))

\* Mutant of ValidateArgs: the length of analysis_roi is not checked.
ValidateArgsNoRoi(a) ==
    IF ~a.inputImageFile_isfile THEN "IOError_inputImageFile"
    ELSE IF Len(a.reference_mu_lab) # 3 THEN "ValueError_reference_mu_lab"
    ELSE IF Len(a.reference_std_lab) # 3 THEN "ValueError_reference_std_lab"
    ELSE "none"

\* main, line 94-104: the first failing check decides the exception.
ValidateArgs(a) ==
    IF ~a.inputImageFile_isfile THEN "IOError_inputImageFile"
    ELSE IF Len(a.reference_mu_lab) # 3 THEN "ValueError_reference_mu_lab"
    ELSE IF Len(a.reference_std_lab) # 3 THEN "ValueError_reference_std_lab"
    ELSE IF Len(a.analysis_roi) # 4 THEN "ValueError_analysis_roi"
    ELSE "none"

\* Mutant of AllMinusOne: np.any in place of np.all.
AnyMinusOne(roi) == \E i \in DOMAIN roi : roi[i] = -1

\* main, line 106: np.all(np.array(args.analysis_roi) == -1)
AllMinusOne(roi) == \A i \in DOMAIN roi : roi[i] = -1

NoRegion == [present |-> FALSE, left |-> 0, top |-> 0, width |-> 0, height |-> 0]

ClampNeg(x) == IF x < 0 THEN 0 ELSE x

\* Mutant of RegionOf: negative bounds are clamped to 0.
RegionClamped(roi) ==
    [present |-> TRUE, left |-> ClampNeg(roi[1]), top |-> ClampNeg(roi[2]),
     width |-> ClampNeg(roi[3]), height |-> ClampNeg(roi[4])]

\* main, line 155-161: the region handed to the tile source.
RegionOf(roi) ==
    [present |-> TRUE, left |-> roi[1], top |-> roi[2],
     width |-> roi[3], height |-> roi[4]]

\* main, line 178-179: np.count_nonzero(tile_fgnd_frac_list >= min_fgnd_frac)
CountFgndTiles(fracs, min_frac) ==
    Cardinality({i \in DOMAIN fracs : fracs[i] >= min_frac})

\* Mutant of SkipTile: the fraction is looked up whether or not the slide
\* is pyramidal.
SkipTileIgnoreWsi(wsi, fracs, pos, min_frac) ==
    pos + 1 \in DOMAIN fracs /\ fracs[pos + 1] <= min_frac

\* Mutant of SkipTile: the comparison is turned around.
SkipTileReversed(wsi, fracs, pos, min_frac) ==
    wsi /\ fracs[pos + 1] >= min_frac

\* main, line 203: the tile at 0-based position pos is skipped.
SkipTile(wsi, fracs, pos, min_frac) ==
    wsi /\ fracs[pos + 1] <= min_frac

\* main, line 207-210: the delayed task of one tile.
Delayed(pos, kw) ==
    [tile_position |-> pos, it_kwargs |-> kw, computed |-> FALSE,
     annot_list |-> << >>, fdata |-> << >>, columns |-> << >>]

\* compute_tile_nuclei_features, line 56-79: a tile's result with na
\* annotations and nr feature rows; the rows carry the tile's own index.
TileAnnots(pos, na) == [k \in 1..na |-> [tile |-> pos, k |-> k]]
TileFdata(pos, nr) == [k \in 1..nr |-> [index |-> k - 1, tile |-> pos, k |-> k]]

\* A column name is a sequence of tokens; these are the names
\* compute_nuclei_features gives its columns, line 65-75.
RawColumns == << << "Size.Area" >>, << "Intensity.Mean" >> >>

\* compute_tile_nuclei_features, line 77: 'Feature.' + col for every column
AddPrefix(columns) ==
    [i \in DOMAIN columns |-> << "Feature." >> \o columns[i]]

FinishedSlots(fin) == {fin[j].slot : j \in DOMAIN fin}

\* Mutant of TasksComplete: compute() returns without waiting for the batch.
NoBarrier(n, fin) == TRUE

\* Mutant of TasksComplete: a task that raised counts as complete.
TasksSettled(n, fin) ==
    \A i \in 1..n : \E j \in DOMAIN fin : fin[j].slot = i

\* dask compute, line 215: every task of the batch has a result.
TasksComplete(n, fin) ==
    \A i \in 1..n : \E j \in DOMAIN fin : fin[j].slot = i /\ fin[j].ok

\* dask compute, line 215: some task raised.
AnyTaskFailed(fin) == \E j \in DOMAIN fin : ~fin[j].ok

\* Mutant of Gather: the results are taken in completion order.
GatherByCompletion(lst, fin) ==
    [i \in DOMAIN lst |->
        IF i \in DOMAIN fin
        THEN [lst[fin[i].slot] EXCEPT
                  !.computed = TRUE, !.annot_list = fin[i].annot_list,
                  !.fdata = fin[i].fdata, !.columns = fin[i].columns]
        ELSE lst[i]]

\* dask compute, line 215: the results, keyed by their place in the list.
Gather(lst, fin) ==
    [i \in DOMAIN lst |->
        IF i \in FinishedSlots(fin)
        THEN LET r == fin[CHOOSE j \in DOMAIN fin : fin[j].slot = i]
             IN [lst[i] EXCEPT
                    !.computed = TRUE, !.annot_list = r.annot_list,
                    !.fdata = r.fdata, !.columns = r.columns]
        ELSE lst[i]]

\* main, line 217-219
FlattenAnnots(results) ==
    Flatten([i \in DOMAIN results |-> results[i].annot_list])

\* Mutant of PdConcat: the first table is left out.
PdConcatDropFirst(frames) ==
    LET rows == IF frames = << >> THEN << >> ELSE Flatten(Tail(frames))
    IN [i \in DOMAIN rows |-> [rows[i] EXCEPT !.index = i - 1]]

\* Mutant of PdConcat: the tables' own row indices are kept.
PdConcatKeepIndex(frames) == Flatten(frames)

\* main, line 221-222: pd.concat(..., ignore_index=True)
PdConcat(frames) ==
    LET rows == Flatten(frames)
    IN [i \in DOMAIN rows |-> [rows[i] EXCEPT !.index = i - 1]]

RECURSIVE ConcatColumnsReprefixed(_)
\* Mutant of ConcatColumns: the prefix is put on again while aggregating.
ConcatColumnsReprefixed(cols) ==
    IF cols = << >> THEN << >>
    ELSE LET first == ConcatColumnsReprefixed(SubSeq(cols, 1, Len(cols) - 1))
             last == AddPrefix(cols[Len(cols)])
             IsNew(c) == \A i \in DOMAIN first : first[i] # c
         IN first \o SelectSeq(last, IsNew)

RECURSIVE ConcatColumns(_)
\* main, line 221-222: the columns of pd.concat's result are the columns of
\* the tables, each name once, in the order they first appear.
ConcatColumns(cols) ==
    IF cols = << >> THEN << >>
    ELSE LET first == ConcatColumns(SubSeq(cols, 1, Len(cols) - 1))
             last == cols[Len(cols)]
             IsNew(c) == \A i \in DOMAIN first : first[i] # c
         IN first \o SelectSeq(last, IsNew)

\* Mutant of AnnotationConfigured: the annotation file is always written.
AnnotationAlways(a) == TRUE

\* Line 236-252 raise nothing themselves: the exceptions that end main there
\* come out of os.path, str, open, json and pandas, and their class depends
\* on the path, the document and the file system. exc records the statement
\* that raised; each set below has one member standing for every class that
\* statement can raise.

\* main, line 236-240: building the document's name raised, before the file
\* is opened: AttributeError from os.path.basename at line 237 for a path
\* that is not a string; at line 240 UnicodeDecodeError when the format
\* label is unicode and the basename is not ASCII, TypeError when the label
\* is not a string.
NameErrors == { "Exception_annotation_name" }

\* main, line 244: open(path, 'w') raised, the file left untouched: IOError
\* when the file cannot be created, UnicodeEncodeError for a unicode path the
\* file system encoding has no bytes for, TypeError for a path holding a NUL
\* byte.
AnnotationOpenErrors == { "Exception_open_outputNucleiAnnotationFile" }

\* main, line 245: json.dump raised after the file was opened: IOError when
\* a write fails, TypeError for a value json has no encoding for,
\* UnicodeDecodeError for a str that is not UTF-8 (the basename of the path
\* is one of the document's strings), ValueError for a circular reference,
\* RuntimeError for nesting beyond the recursion limit.
DumpErrors == { "Exception_json_dump" }

\* main, line 252: to_csv raised when it opened the file at outputFile, the
\* file left untouched; the classes are those of open at line 244.
CsvOpenErrors == { "Exception_to_csv_open" }

\* main, line 252: to_csv raised after it opened the file, the file left
\* truncated or partly written: IOError when a write fails,
\* UnicodeEncodeError for a value the writer cannot encode.
CsvWriteErrors == { "Exception_to_csv_write" }

\* main, line 234: an annotation output path is configured
AnnotationConfigured(a) == a.outputNucleiAnnotationFile

\* ---------------------------------------------------------------- Init

Init ==
    /\ args \in ArgsSet
    /\ pc = "validate"
    /\ exc = "none"
    /\ process_whole_image = FALSE
    /\ client_acquired = 0
    /\ client_held = FALSE
    /\ ts_open = FALSE
    /\ is_wsi = FALSE
    /\ grid_tiles = 0
    /\ mask_computed = FALSE
    /\ tile_fgnd_frac_list = << >>
    /\ it_kwargs = NoRegion
    /\ num_tiles = 0
    /\ num_fgnd_tiles = 0
    /\ grid_planned = FALSE
    /\ iterPos = 0
    /\ tile_result_list = << >>
    /\ finished = << >>
    /\ nuclei_annot_list = << >>
    /\ nuclei_fdata = << >>
    /\ annotation_file_writes = 0
    /\ feature_file_writes = 0
    /\ frac_computed = FALSE
    /\ nuclei_fdata_columns = << >>
    /\ feature_file_columns = << >>
    /\ annotation_file = "untouched"
    /\ feature_file = "untouched"
    /\ outputFile = "unread"

\* ---------------------------------------------------------------- actions

\* main, line 94-109
Validate ==
    /\ pc = "validate"
    /\ LET e == ValidateArgs(args)
       IN \/ /\ e # "none"
             /\ pc' = "exit_error"
             /\ exc' = e
             /\ UNCHANGED process_whole_image
          \/ /\ e = "none"
             /\ pc' = "create_client"
             /\ process_whole_image' = AllMinusOne(args.analysis_roi)
             /\ UNCHANGED exc
    /\ UNCHANGED << args, client_acquired, client_held, ts_open, is_wsi,
                    grid_tiles, mask_computed, tile_fgnd_frac_list, it_kwargs,
                    num_tiles, num_fgnd_tiles, grid_planned, iterPos,
                    tile_result_list, finished, nuclei_annot_list,
                    nuclei_fdata, annotation_file_writes, feature_file_writes >>
    /\ UNCHANGED << frac_computed, nuclei_fdata_columns, feature_file_columns,
                    annotation_file, feature_file, outputFile >>

\* main, line 116
CreateDaskClient ==
    /\ pc = "create_client"
    /\ client_acquired' = client_acquired + 1
    /\ client_held' = TRUE
    /\ pc' = "read_image"
    /\ UNCHANGED << args, exc, process_whole_image, ts_open, is_wsi,
                    grid_tiles, mask_computed, tile_fgnd_frac_list, it_kwargs,
                    num_tiles, num_fgnd_tiles, grid_planned, iterPos,
                    tile_result_list, finished, nuclei_annot_list,
                    nuclei_fdata, annotation_file_writes, feature_file_writes >>
    /\ UNCHANGED << frac_computed, nuclei_fdata_columns, feature_file_columns,
                    annotation_file, feature_file, outputFile >>

\* main, line 125-131: the slide is pyramidal or not
ReadInputImage ==
    /\ pc = "read_image"
    /\ ts_open' = TRUE
    /\ \E wsi \in BOOLEAN : is_wsi' = wsi
    /\ pc' = "fgnd_mask"
    /\ UNCHANGED << args, exc, process_whole_image, client_acquired,
                    client_held, grid_tiles, mask_computed,
                    tile_fgnd_frac_list, it_kwargs, num_tiles, num_fgnd_tiles,
                    grid_planned, iterPos, tile_result_list, finished,
                    nuclei_annot_list, nuclei_fdata, annotation_file_writes,
                    feature_file_writes >>
    /\ UNCHANGED << frac_computed, nuclei_fdata_columns, feature_file_columns,
                    annotation_file, feature_file, outputFile >>

\* Mutant of SegmentForeground: the exception of the mask computation is
\* recorded and main goes on.
SegmentForegroundSwallow ==
    /\ pc = "fgnd_mask"
    /\ \/ /\ is_wsi
          /\ mask_computed' = TRUE
          /\ pc' = "it_kwargs"
          /\ UNCHANGED exc
       \/ /\ is_wsi
          /\ pc' = "it_kwargs"
          /\ exc' = "ForegroundComputationError"
          /\ UNCHANGED mask_computed
       \/ /\ ~is_wsi
          /\ pc' = "it_kwargs"
          /\ UNCHANGED << exc, mask_computed >>
    /\ UNCHANGED << args, process_whole_image, client_acquired, client_held,
                    ts_open, is_wsi, grid_tiles, tile_fgnd_frac_list,
                    it_kwargs, num_tiles, num_fgnd_tiles, grid_planned,
                    iterPos, tile_result_list, finished, nuclei_annot_list,
                    nuclei_fdata, annotation_file_writes, feature_file_writes >>
    /\ UNCHANGED << frac_computed, nuclei_fdata_columns, feature_file_columns,
                    annotation_file, feature_file, outputFile >>

\* main, line 136-141: segment_wsi_foreground_at_low_res returns or raises
SegmentForeground ==
    /\ pc = "fgnd_mask"
    /\ \/ /\ is_wsi
          /\ mask_computed' = TRUE
          /\ pc' = "it_kwargs"
          /\ UNCHANGED exc
       \/ /\ is_wsi
          /\ pc' = "exit_error"
          /\ exc' = "ForegroundComputationError"
          /\ UNCHANGED mask_computed
       \/ /\ ~is_wsi
          /\ pc' = "it_kwargs"
          /\ UNCHANGED << exc, mask_computed >>
    /\ UNCHANGED << args, process_whole_image, client_acquired, client_held,
                    ts_open, is_wsi, grid_tiles, tile_fgnd_frac_list,
                    it_kwargs, num_tiles, num_fgnd_tiles, grid_planned,
                    iterPos, tile_result_list, finished, nuclei_annot_list,
                    nuclei_fdata, annotation_file_writes, feature_file_writes >>
    /\ UNCHANGED << frac_computed, nuclei_fdata_columns, feature_file_columns,
                    annotation_file, feature_file, outputFile >>

\* main, line 146-161; the tile source fixes the grid of that region
BuildItKwargs ==
    /\ pc = "it_kwargs"
    /\ tile_fgnd_frac_list' = << FracScale >>
    /\ \/ /\ process_whole_image
          /\ it_kwargs' = NoRegion
          /\ \E n \in 0..MaxTiles : grid_tiles' = n
          /\ pc' = "fgnd_frac"
          /\ UNCHANGED exc
       \/ /\ ~process_whole_image
          /\ Len(args.analysis_roi) >= 4
          /\ it_kwargs' = RegionOf(args.analysis_roi)
          /\ \E n \in 0..MaxTiles : grid_tiles' = n
          /\ pc' = "fgnd_frac"
          /\ UNCHANGED exc
       \/ /\ ~process_whole_image
          /\ Len(args.analysis_roi) < 4
          /\ pc' = "exit_error"
          /\ exc' = "IndexError_analysis_roi"
          /\ UNCHANGED << it_kwargs, grid_tiles >>
    /\ UNCHANGED << args, process_whole_image, client_acquired, client_held,
                    ts_open, is_wsi, mask_computed, num_tiles, num_fgnd_tiles,
                    grid_planned, iterPos, tile_result_list, finished,
                    nuclei_annot_list, nuclei_fdata, annotation_file_writes,
                    feature_file_writes >>
    /\ UNCHANGED << frac_computed, nuclei_fdata_columns, feature_file_columns,
                    annotation_file, feature_file, outputFile >>

\* Mutant of ComputeFgndFrac: a grid of no tile is reported as a count of 0
\* and the percentage is computed from it.
ComputeFgndFracZeroCount ==
    /\ pc = "fgnd_frac"
    /\ \/ /\ is_wsi
          /\ grid_tiles > 0
          /\ grid_planned' = TRUE
          /\ frac_computed' = TRUE
          /\ num_tiles' = grid_tiles
          /\ \E fracs \in [1..grid_tiles -> Fractions] :
                /\ tile_fgnd_frac_list' = fracs
                /\ num_fgnd_tiles' = CountFgndTiles(fracs, args.min_fgnd_frac)
          /\ pc' = "iterate"
          /\ UNCHANGED exc
       \/ /\ is_wsi
          /\ grid_tiles = 0
          /\ grid_planned' = TRUE
          /\ frac_computed' = TRUE
          /\ num_tiles' = 0
          /\ tile_fgnd_frac_list' = << >>
          /\ num_fgnd_tiles' = 0
          /\ pc' = "exit_error"
          /\ exc' = "ZeroDivisionError"
       \/ /\ ~is_wsi
          /\ pc' = "iterate"
          /\ UNCHANGED << exc, grid_planned, num_tiles, tile_fgnd_frac_list,
                          num_fgnd_tiles, frac_computed >>
    /\ UNCHANGED << args, process_whole_image, client_acquired, client_held,
                    ts_open, is_wsi, grid_tiles, mask_computed, it_kwargs,
                    iterPos, tile_result_list, finished, nuclei_annot_list,
                    nuclei_fdata, annotation_file_writes, feature_file_writes >>
    /\ UNCHANGED << nuclei_fdata_columns, feature_file_columns, annotation_file,
                    feature_file, outputFile >>

\* main, line 163-186: tile count, foreground fraction of every tile, report.
\* getSingleTile at line 169 returns the first tile of the grid, whose
\* iterator range holds the tile count, or None when the grid has no tile;
\* subscripting None raises TypeError before any fraction is computed.
ComputeFgndFrac ==
    /\ pc = "fgnd_frac"
    /\ \/ /\ is_wsi
          /\ grid_tiles > 0
          /\ grid_planned' = TRUE
          /\ frac_computed' = TRUE
          /\ num_tiles' = grid_tiles
          /\ \E fracs \in [1..grid_tiles -> Fractions] :
                /\ tile_fgnd_frac_list' = fracs
                /\ num_fgnd_tiles' = CountFgndTiles(fracs, args.min_fgnd_frac)
          /\ pc' = "iterate"
          /\ UNCHANGED exc
       \/ /\ is_wsi
          /\ grid_tiles = 0
          /\ grid_planned' = TRUE
          /\ pc' = "exit_error"
          /\ exc' = "TypeError_getSingleTile"
          /\ UNCHANGED << num_tiles, tile_fgnd_frac_list, num_fgnd_tiles,
                          frac_computed >>
       \/ /\ ~is_wsi
          /\ pc' = "iterate"
          /\ UNCHANGED << exc, grid_planned, num_tiles, tile_fgnd_frac_list,
                          num_fgnd_tiles, frac_computed >>
    /\ UNCHANGED << args, process_whole_image, client_acquired, client_held,
                    ts_open, is_wsi, grid_tiles, mask_computed, it_kwargs,
                    iterPos, tile_result_list, finished, nuclei_annot_list,
                    nuclei_fdata, annotation_file_writes, feature_file_writes >>
    /\ UNCHANGED << nuclei_fdata_columns, feature_file_columns, annotation_file,
                    feature_file, outputFile >>

\* main, line 199-213: one turn of the loop over the tile iterator
IterTile ==
    /\ pc = "iterate"
    /\ iterPos < grid_tiles
    /\ grid_planned' = TRUE
    /\ LET tile_position == iterPos
       IN IF SkipTile(is_wsi, tile_fgnd_frac_list, tile_position,
                      args.min_fgnd_frac)
          THEN UNCHANGED tile_result_list
          ELSE tile_result_list' =
                   Append(tile_result_list,
                          Delayed(tile_position, it_kwargs))
    /\ iterPos' = iterPos + 1
    /\ UNCHANGED << args, pc, exc, process_whole_image, client_acquired,
                    client_held, ts_open, is_wsi, grid_tiles, mask_computed,
                    tile_fgnd_frac_list, it_kwargs, num_tiles, num_fgnd_tiles,
                    finished, nuclei_annot_list, nuclei_fdata,
                    annotation_file_writes, feature_file_writes >>
    /\ UNCHANGED << frac_computed, nuclei_fdata_columns, feature_file_columns,
                    annotation_file, feature_file, outputFile >>

\* main, line 215: the iterator is exhausted and the batch is handed to dask
Compute ==
    /\ pc = "iterate"
    /\ iterPos = grid_tiles
    /\ grid_planned' = TRUE
    /\ pc' = "computing"
    /\ UNCHANGED << args, exc, process_whole_image, client_acquired,
                    client_held, ts_open, is_wsi, grid_tiles, mask_computed,
                    tile_fgnd_frac_list, it_kwargs, num_tiles, num_fgnd_tiles,
                    iterPos, tile_result_list, finished, nuclei_annot_list,
                    nuclei_fdata, annotation_file_writes, feature_file_writes >>
    /\ UNCHANGED << frac_computed, nuclei_fdata_columns, feature_file_columns,
                    annotation_file, feature_file, outputFile >>

\* compute_tile_nuclei_features, line 26-79, run by a worker for one task of
\* the batch: it returns its annotations and feature rows, or raises
RunTask(i) ==
    /\ pc = "computing"
    /\ i \in DOMAIN tile_result_list
    /\ i \notin FinishedSlots(finished)
    /\ LET pos == tile_result_list[i].tile_position
       IN \/ \E na \in 0..MaxNuclei, nr \in 0..MaxNuclei :
                finished' = Append(finished,
                    [slot |-> i, ok |-> TRUE,
                     annot_list |-> TileAnnots(pos, na),
                     fdata |-> TileFdata(pos, nr),
                     columns |-> AddPrefix(RawColumns)])
          \/ finished' = Append(finished,
                    [slot |-> i, ok |-> FALSE,
                     annot_list |-> << >>, fdata |-> << >>,
                     columns |-> << >>])
    /\ UNCHANGED << args, pc, exc, process_whole_image, client_acquired,
                    client_held, ts_open, is_wsi, grid_tiles, mask_computed,
                    tile_fgnd_frac_list, it_kwargs, num_tiles, num_fgnd_tiles,
                    grid_planned, iterPos, tile_result_list, nuclei_annot_list,
                    nuclei_fdata, annotation_file_writes, feature_file_writes >>
    /\ UNCHANGED << frac_computed, nuclei_fdata_columns, feature_file_columns,
                    annotation_file, feature_file, outputFile >>

\* main, line 215: compute() returns the results of the whole batch
ComputeReturn ==
    /\ pc = "computing"
    /\ TasksComplete(Len(tile_result_list), finished)
    /\ tile_result_list' = Gather(tile_result_list, finished)
    /\ pc' = "aggregate"
    /\ UNCHANGED << args, exc, process_whole_image, client_acquired,
                    client_held, ts_open, is_wsi, grid_tiles, mask_computed,
                    tile_fgnd_frac_list, it_kwargs, num_tiles, num_fgnd_tiles,
                    grid_planned, iterPos, finished, nuclei_annot_list,
                    nuclei_fdata, annotation_file_writes, feature_file_writes >>
    /\ UNCHANGED << frac_computed, nuclei_fdata_columns, feature_file_columns,
                    annotation_file, feature_file, outputFile >>

\* main, line 215: compute() re-raises the exception of a failed task
ComputeRaise ==
    /\ pc = "computing"
    /\ AnyTaskFailed(finished)
    /\ pc' = "exit_error"
    /\ exc' = "TileAnalysisError"
    /\ UNCHANGED << args, process_whole_image, client_acquired, client_held,
                    ts_open, is_wsi, grid_tiles, mask_computed,
                    tile_fgnd_frac_list, it_kwargs, num_tiles, num_fgnd_tiles,
                    grid_planned, iterPos, tile_result_list, finished,
                    nuclei_annot_list, nuclei_fdata, annotation_file_writes,
                    feature_file_writes >>
    /\ UNCHANGED << frac_computed, nuclei_fdata_columns, feature_file_columns,
                    annotation_file, feature_file, outputFile >>

\* main, line 217-222: pd.concat raises ValueError on an empty list
Aggregate ==
    /\ pc = "aggregate"
    /\ nuclei_annot_list' = FlattenAnnots(tile_result_list)
    /\ \/ /\ tile_result_list # << >>
          /\ nuclei_fdata' =
                 PdConcat([i \in DOMAIN tile_result_list |->
                              tile_result_list[i].fdata])
          /\ nuclei_fdata_columns' =
                 ConcatColumns([i \in DOMAIN tile_result_list |->
                                   tile_result_list[i].columns])
          /\ pc' = "write_annotation"
          /\ UNCHANGED exc
       \/ /\ tile_result_list = << >>
          /\ pc' = "exit_error"
          /\ exc' = "ValueError_concat"
          /\ UNCHANGED << nuclei_fdata, nuclei_fdata_columns >>
    /\ UNCHANGED << args, process_whole_image, client_acquired, client_held,
                    ts_open, is_wsi, grid_tiles, mask_computed,
                    tile_fgnd_frac_list, it_kwargs, num_tiles, num_fgnd_tiles,
                    grid_planned, iterPos, tile_result_list, finished,
                    annotation_file_writes, feature_file_writes >>
    /\ UNCHANGED << frac_computed, feature_file_columns, annotation_file,
                    feature_file, outputFile >>

\* main, line 234-245: the annotation file, when a path is configured.
\* Building the document at line 236-240 may raise with the file untouched;
\* open(path, 'w') at line 244 creates or truncates the file or raises;
\* json.dump at line 245 writes the document or raises with the file left
\* truncated or partly written. main does not compare the two output paths:
\* the file opened at line 244 may be the very file outputFile names (the
\* same path, or another path to it), and then what line 244-245 do to the
\* one they do to the other.
WriteAnnotation ==
    /\ pc = "write_annotation"
    /\ \/ /\ AnnotationConfigured(args)
          /\ \E same \in BOOLEAN :
                /\ outputFile' = IF same THEN "same_file" ELSE outputFile
                /\ feature_file' = IF same THEN "document" ELSE feature_file
          /\ annotation_file' = "document"
          /\ annotation_file_writes' = annotation_file_writes + 1
          /\ pc' = "write_features"
          /\ UNCHANGED exc
       \/ /\ AnnotationConfigured(args)
          /\ pc' = "exit_error"
          /\ \E e \in NameErrors \cup AnnotationOpenErrors : exc' = e
          /\ UNCHANGED << annotation_file, annotation_file_writes,
                          feature_file, outputFile >>
       \/ /\ AnnotationConfigured(args)
          /\ \E same \in BOOLEAN :
                /\ outputFile' = IF same THEN "same_file" ELSE outputFile
                /\ feature_file' = IF same THEN "truncated" ELSE feature_file
          /\ annotation_file' = "truncated"
          /\ pc' = "exit_error"
          /\ \E e \in DumpErrors : exc' = e
          /\ UNCHANGED annotation_file_writes
       \/ /\ ~AnnotationConfigured(args)
          /\ pc' = "write_features"
          /\ UNCHANGED << exc, annotation_file, annotation_file_writes,
                          feature_file, outputFile >>
    /\ UNCHANGED << args, process_whole_image, client_acquired, client_held,
                    ts_open, is_wsi, grid_tiles, mask_computed,
                    tile_fgnd_frac_list, it_kwargs, num_tiles, num_fgnd_tiles,
                    grid_planned, iterPos, tile_result_list, finished,
                    nuclei_annot_list, nuclei_fdata, feature_file_writes >>
    /\ UNCHANGED << frac_computed, nuclei_fdata_columns, feature_file_columns >>

\* main, line 252-256: the feature file. For outputFile None to_csv returns
\* the table as a string, which line 252 drops: no file is opened and main
\* goes on to its end. For a path to_csv opens the file for writing, which
\* creates or truncates it or raises, then writes the header and the rows;
\* a failure after the open leaves the file truncated or partly written.
\* When the path names the file line 244 opened, that file is the one
\* truncated and written, and the table replaces the annotation document.
WriteFeatures ==
    /\ pc = "write_features"
    /\ \/ /\ outputFile = "unread"
          /\ outputFile' = "none"
          /\ pc' = "done"
          /\ UNCHANGED << exc, feature_file, feature_file_writes,
                          feature_file_columns, annotation_file >>
       \/ /\ outputFile' = IF outputFile = "unread" THEN "own_file"
                                                    ELSE outputFile
          /\ \/ /\ feature_file' = "table"
                /\ annotation_file' = IF outputFile = "same_file"
                                          THEN "table" ELSE annotation_file
                /\ feature_file_writes' = feature_file_writes + 1
                /\ feature_file_columns' = nuclei_fdata_columns
                /\ pc' = "done"
                /\ UNCHANGED exc
             \/ /\ pc' = "exit_error"
                /\ \E e \in CsvOpenErrors : exc' = e
                /\ UNCHANGED << feature_file, feature_file_writes,
                                feature_file_columns, annotation_file >>
             \/ /\ feature_file' = "truncated"
                /\ annotation_file' = IF outputFile = "same_file"
                                          THEN "truncated" ELSE annotation_file
                /\ pc' = "exit_error"
                /\ \E e \in CsvWriteErrors : exc' = e
                /\ UNCHANGED << feature_file_writes, feature_file_columns >>
    /\ UNCHANGED << args, process_whole_image, client_acquired, client_held,
                    ts_open, is_wsi, grid_tiles, mask_computed,
                    tile_fgnd_frac_list, it_kwargs, num_tiles, num_fgnd_tiles,
                    grid_planned, iterPos, tile_result_list, finished,
                    nuclei_annot_list, nuclei_fdata, annotation_file_writes >>
    /\ UNCHANGED << frac_computed, nuclei_fdata_columns >>

Next ==
    \/ Validate
    \/ CreateDaskClient
    \/ ReadInputImage
    \/ SegmentForeground
    \/ BuildItKwargs
    \/ ComputeFgndFrac
    \/ IterTile
    \/ Compute
    \/ \E i \in 1..MaxTiles : RunTask(i)
    \/ ComputeReturn
    \/ ComputeRaise
    \/ Aggregate
    \/ WriteAnnotation
    \/ WriteFeatures

\* The runs of main. The properties of configuration and dispatch are checked
\* under Spec.
Spec == Init /\ [][Next]_vars

\* The same runs; the properties of computing and aggregation are checked
\* under ComputeSpec, those of the output files under OutputSpec.
ComputeSpec == Init /\ [][Next]_vars

OutputSpec == Init /\ [][Next]_vars

\* ---------------------------------------------------------------- properties

ConfigErrors ==
    { "IOError_inputImageFile", "ValueError_reference_mu_lab",
      "ValueError_reference_std_lab", "ValueError_analysis_roi" }

WriteErrors ==
    NameErrors \cup AnnotationOpenErrors \cup DumpErrors
        \cup CsvOpenErrors \cup CsvWriteErrors

\* The exceptions that end main after the loop over the tile iterator, after
\* compute() has returned, and after line 217-222.
AfterDispatchErrors == {"TileAnalysisError", "ValueError_concat"} \cup WriteErrors
AfterBarrierErrors == {"ValueError_concat"} \cup WriteErrors

\* The loop over the tile iterator has ended.
DispatchDone ==
    \/ pc \in {"computing", "aggregate", "write_annotation", "write_features",
               "done"}
    \/ pc = "exit_error" /\ exc \in AfterDispatchErrors

\* compute() has returned: main is at or past line 217.
PostBarrier ==
    \/ pc \in {"aggregate", "write_annotation", "write_features", "done"}
    \/ pc = "exit_error" /\ exc \in AfterBarrierErrors

\* Line 217-222 have run to their end.
Aggregated ==
    \/ pc \in {"write_annotation", "write_features", "done"}
    \/ pc = "exit_error" /\ exc \in WriteErrors

SubmittedPositions ==
    {tile_result_list[i].tile_position : i \in DOMAIN tile_result_list}

\* C1: in a whole-slide run every tile position the iterator has yielded is
\* submitted if and only if its foreground fraction is >= min_fgnd_frac.
C1_InclusiveThreshold ==
    (is_wsi /\ (pc = "iterate" \/ DispatchDone)) =>
        \A p \in 0..(iterPos - 1) :
            (p \in SubmittedPositions)
                <=> (tile_fgnd_frac_list[p + 1] >= args.min_fgnd_frac)

\* A tile position is eligible: the slide is not pyramidal, or the fraction
\* looked up at the position is at least the threshold.
Eligible(p) ==
    ~is_wsi \/ tile_fgnd_frac_list[p + 1] >= args.min_fgnd_frac

\* C2: once the loop has ended no tile position was submitted twice and the
\* number of submitted tasks is the number of eligible positions yielded.
C2_OncePerEligible ==
    DispatchDone =>
        /\ \A i, j \in DOMAIN tile_result_list :
               tile_result_list[i].tile_position
                   = tile_result_list[j].tile_position => i = j
        /\ Len(tile_result_list)
               = Cardinality({p \in 0..(grid_tiles - 1) : Eligible(p)})

\* a comes before b: an earlier tile, or the same tile and an earlier emission.
Before(a, b) == a.tile < b.tile \/ (a.tile = b.tile /\ a.k < b.k)

Key(r) == [tile |-> r.tile, k |-> r.k]

\* What the workers returned, whatever the order they finished in.
ProducedAnnots ==
    UNION {{Key(finished[j].annot_list[k]) :
               k \in DOMAIN finished[j].annot_list} : j \in DOMAIN finished}

ProducedRows ==
    UNION {{Key(finished[j].fdata[k]) :
               k \in DOMAIN finished[j].fdata} : j \in DOMAIN finished}

\* C3: after aggregation the annotation list and the feature table hold
\* exactly what the workers returned, in ascending tile position and, within
\* a tile, in emission order, whatever the order the tasks completed in.
C3_PositionOrder ==
    Aggregated =>
        /\ \A i, j \in DOMAIN nuclei_annot_list :
               i < j => Before(nuclei_annot_list[i], nuclei_annot_list[j])
        /\ \A i, j \in DOMAIN nuclei_fdata :
               i < j => Before(nuclei_fdata[i], nuclei_fdata[j])
        /\ {Key(nuclei_annot_list[i]) : i \in DOMAIN nuclei_annot_list}
               = ProducedAnnots
        /\ {Key(nuclei_fdata[i]) : i \in DOMAIN nuclei_fdata} = ProducedRows

\* C3 witness: two tasks completed against their list order, both returned
\* annotations and rows, and aggregation has run.
C3_Witness ==
    /\ Aggregated
    /\ Len(finished) >= 2
    /\ finished[1].slot > finished[2].slot
    /\ \A j \in 1..2 :
           finished[j].annot_list # << >> /\ finished[j].fdata # << >>

\* C4: whenever main is past compute(), every submitted task has completed,
\* every entry of the list is a result, and the iterator is exhausted.
C4_Barrier ==
    PostBarrier =>
        /\ iterPos = grid_tiles
        /\ \A i \in DOMAIN tile_result_list :
               /\ tile_result_list[i].computed
               /\ \E j \in DOMAIN finished :
                      finished[j].slot = i /\ finished[j].ok

\* C4 witness: aggregation is about to start on a batch of two tasks.
C4_Witness ==
    pc = "aggregate" /\ Len(tile_result_list) >= 2

\* C5: once a tile task has failed main never gets past compute(), nothing
\* is aggregated or written, an ended run ended with the task's exception,
\* and no task is run a second time.
C5_FailFast ==
    /\ \A i, j \in DOMAIN finished :
           finished[i].slot = finished[j].slot => i = j
    /\ AnyTaskFailed(finished) =>
           /\ pc \in {"computing", "exit_error"}
           /\ pc = "exit_error" => exc = "TileAnalysisError"
           /\ nuclei_annot_list = << >>
           /\ nuclei_fdata = << >>
           /\ annotation_file = "untouched"
           /\ annotation_file_writes = 0
           /\ feature_file_writes = 0

\* C5 witness: a run of two tasks ended with the exception of a failed task
\* while the other task had completed.
C5_Witness ==
    /\ pc = "exit_error"
    /\ exc = "TileAnalysisError"
    /\ Len(tile_result_list) >= 2
    /\ \E j \in DOMAIN finished : finished[j].ok

\* C6: a run that got past validation acquired the client exactly once and
\* no longer holds it when it has ended, on the success path or any failure.
C6_ClientReleased ==
    (pc \in {"done", "exit_error"} /\ exc \notin ConfigErrors) =>
        client_acquired = 1 /\ ~client_held

\* C7: a run whose eligible tile set is empty does not end with the
\* unhandled error of concatenating zero tables.
C7_EmptyHandled ==
    (DispatchDone /\ tile_result_list = << >>) =>
        ~(pc = "exit_error" /\ exc = "ValueError_concat")

\* The arguments carry a configuration error.
ConfigError(a) ==
    \/ ~a.inputImageFile_isfile
    \/ Len(a.reference_mu_lab) # 3
    \/ Len(a.reference_std_lab) # 3
    \/ Len(a.analysis_roi) # 4

\* C8: in a run with a configuration error the client is never created, the
\* image is never opened, the mask is never computed and no task is built.
C8_ConfigBeforeParallel ==
    ConfigError(args) =>
        /\ pc \in {"validate", "exit_error"}
        /\ pc = "exit_error" => exc \in ConfigErrors
        /\ client_acquired = 0
        /\ ~client_held
        /\ ~ts_open
        /\ ~mask_computed
        /\ ~grid_planned
        /\ tile_result_list = << >>
        /\ finished = << >>

\* C8 witness: a run ended on the region vector's length, the last check.
C8_Witness ==
    /\ pc = "exit_error"
    /\ exc = "ValueError_analysis_roi"
    /\ Len(args.analysis_roi) = 5

\* A region that is not the sentinel and has a wrong length, a negative
\* bound, or a far edge outside the slide.
MalformedRegion(roi) ==
    /\ ~AllMinusOne(roi)
    /\ \/ Len(roi) # 4
       \/ \E i \in DOMAIN roi : roi[i] < 0
       \/ IF Len(roi) = 4
          THEN roi[1] + roi[3] > SlideSize \/ roi[2] + roi[4] > SlideSize
          ELSE FALSE

\* C9 as stated: a malformed region is rejected before any tile is planned
\* or dispatched.
C9_MalformedRejected ==
    MalformedRegion(args.analysis_roi) =>
        ~grid_planned /\ tile_result_list = << >>

\* C9 amended: only a region vector whose length is not 4 is rejected before
\* any tile is planned or dispatched; a 4-element region that is not the
\* sentinel reaches the tile source with its four entries unchanged.
C9_LengthOnlyRejected ==
    /\ Len(args.analysis_roi) # 4 =>
           ~grid_planned /\ tile_result_list = << >> /\ ~it_kwargs.present
    /\ (Len(args.analysis_roi) = 4 /\ grid_planned) =>
           IF \A i \in 1..4 : args.analysis_roi[i] = -1
           THEN ~it_kwargs.present
           ELSE /\ it_kwargs.present
                /\ << it_kwargs.left, it_kwargs.top,
                      it_kwargs.width, it_kwargs.height >> = args.analysis_roi

\* C9 witness: a run over a malformed 4-element region dispatched a tile and
\* ended successfully.
C9_Witness ==
    /\ MalformedRegion(args.analysis_roi)
    /\ Len(args.analysis_roi) = 4
    /\ pc = "done"
    /\ tile_result_list # << >>

RECURSIVE SumAnnots(_)
SumAnnots(fin) ==
    IF fin = << >> THEN 0 ELSE Len(Head(fin).annot_list) + SumAnnots(Tail(fin))

\* Every tile returned as many annotations as feature rows.
RowCorrespondence ==
    \A j \in DOMAIN finished :
        Len(finished[j].annot_list) = Len(finished[j].fdata)

\* C10: when every tile returned as many annotations as feature rows, the
\* aggregated annotation count is the sum of the per-tile annotation counts
\* and is the number of rows of the aggregated feature table.
C10_CountsAgree ==
    (Aggregated /\ RowCorrespondence) =>
        /\ Len(nuclei_annot_list) = SumAnnots(finished)
        /\ Len(nuclei_fdata) = Len(nuclei_annot_list)

\* C10 witness: aggregation ran over an empty and a non-empty tile result.
C10_Witness ==
    /\ Aggregated
    /\ RowCorrespondence
    /\ \E i, j \in DOMAIN finished :
           finished[i].annot_list = << >> /\ finished[j].annot_list # << >>

\* C11: for a slide that is not pyramidal the foreground mask and the tile
\* fractions are never computed, the fraction table is exactly [1.0] from
\* line 146 on, and every tile the iterator has yielded is dispatched,
\* whatever min_fgnd_frac is and however many tiles there are.
C11_NonPyramidal ==
    (ts_open /\ ~is_wsi) =>
        /\ ~mask_computed
        /\ ~frac_computed
        /\ (pc = "iterate" \/ DispatchDone) =>
               /\ tile_fgnd_frac_list = << FracScale >>
               /\ Len(tile_result_list) = iterPos
               /\ SubmittedPositions = 0..(iterPos - 1)

\* C11 witness: a slide that is not pyramidal yielded two tiles, the
\* threshold is 1.0, and both tiles were dispatched.
C11_Witness ==
    /\ ts_open
    /\ ~is_wsi
    /\ DispatchDone
    /\ args.min_fgnd_frac = FracScale
    /\ Len(tile_result_list) >= 2

\* C12: when the low-resolution foreground mask computation has failed the
\* run has ended there: no mask is bound, no tile fraction is computed, the
\* tile grid is never asked for, no task is built or run, nothing is written.
C12_MaskFailureAborts ==
    exc = "ForegroundComputationError" =>
        /\ pc = "exit_error"
        /\ is_wsi
        /\ ~mask_computed
        /\ ~frac_computed
        /\ ~grid_planned
        /\ tile_result_list = << >>
        /\ finished = << >>
        /\ annotation_file = "untouched"
        /\ annotation_file_writes = 0
        /\ feature_file_writes = 0

\* C12 witness: a whole-slide run ended on the failure of the mask.
C12_Witness ==
    /\ pc = "exit_error"
    /\ exc = "ForegroundComputationError"
    /\ is_wsi
    /\ client_held

\* The tile positions main dispatches out of n tiles under threshold t.
DispatchSet(wsi, fracs, n, t) ==
    {p \in 0..(n - 1) : ~SkipTile(wsi, fracs, p, t)}

\* C13: once the loop has ended the dispatched positions are those the
\* filter keeps under min_fgnd_frac, and for the run's fraction table and
\* grid the positions kept under a threshold t2 are among those kept under
\* any threshold t1 <= t2.
C13_ThresholdMonotonic ==
    DispatchDone =>
        /\ SubmittedPositions =
               DispatchSet(is_wsi, tile_fgnd_frac_list, grid_tiles,
                           args.min_fgnd_frac)
        /\ \A t1, t2 \in Fractions :
               t1 <= t2 =>
                   DispatchSet(is_wsi, tile_fgnd_frac_list, grid_tiles, t2)
                       \subseteq
                   DispatchSet(is_wsi, tile_fgnd_frac_list, grid_tiles, t1)

\* C13 witness: a whole-slide run dispatched a tile that a higher threshold
\* would have filtered out.
C13_Witness ==
    /\ is_wsi
    /\ DispatchDone
    /\ SubmittedPositions # {}
    /\ \E t \in Fractions :
           /\ t > args.min_fgnd_frac
           /\ DispatchSet(is_wsi, tile_fgnd_frac_list, grid_tiles, t)
                  # SubmittedPositions

\* C14 as stated: a run that got through aggregation and has ended wrote the
\* feature file exactly once, and the annotation file if and only if an
\* annotation path is configured.
C14_AlwaysWritten ==
    (Aggregated /\ pc \in {"done", "exit_error"}) =>
        /\ feature_file_writes = 1
        /\ annotation_file_writes = 1 <=> args.outputNucleiAnnotationFile

\* json.dump at line 245 has run to its end.
DocumentWritten ==
    /\ args.outputNucleiAnnotationFile
    /\ \/ pc \in {"write_features", "done"}
       \/ pc = "exit_error" /\ exc \in CsvOpenErrors \cup CsvWriteErrors

\* What the file at outputNucleiAnnotationFile holds once line 245 is behind
\* and nothing has been written over it.
AnnotationAsLeft ==
    IF args.outputNucleiAnnotationFile THEN "document" ELSE "untouched"

\* C14 amended: no file is written or opened for writing before aggregation
\* has finished, and without a configured annotation path no annotation
\* file is touched. json.dump and to_csv each write at most once. A run that
\* reached its end without an exception wrote the annotation document once
\* if and only if an annotation path is configured, and wrote the feature
\* table once unless outputFile is None, in which case no feature file is
\* written. When both paths name one file, line 244 truncates the file at
\* outputFile and the table written at line 252 replaces the document; with
\* two files the annotation file keeps the document. A run in which line
\* 236-244 raised left both files untouched; one in which json.dump raised
\* left the annotation file truncated and no table written; one in which
\* to_csv raised left the file at outputFile as it was (its open raised) or
\* truncated.
C14_WrittenOnCompletion ==
    /\ ~Aggregated =>
           /\ annotation_file = "untouched"
           /\ feature_file = "untouched"
           /\ outputFile = "unread"
           /\ annotation_file_writes = 0
           /\ feature_file_writes = 0
    /\ annotation_file_writes = (IF DocumentWritten THEN 1 ELSE 0)
    /\ feature_file_writes = (IF feature_file = "table" THEN 1 ELSE 0)
    /\ ~args.outputNucleiAnnotationFile =>
           annotation_file = "untouched" /\ outputFile # "same_file"
    /\ outputFile = "same_file" =>
           feature_file = annotation_file /\ annotation_file # "untouched"
    /\ outputFile # "same_file" =>
           /\ annotation_file \in {"untouched", "truncated", "document"}
           /\ feature_file \in {"untouched", "truncated", "table"}
    /\ pc = "done" =>
           /\ feature_file = (IF outputFile = "none" THEN "untouched"
                                                       ELSE "table")
           /\ annotation_file = (IF outputFile = "same_file"
                                     THEN "table" ELSE AnnotationAsLeft)
    /\ feature_file = "table" => pc = "done"
    /\ exc \in NameErrors \cup AnnotationOpenErrors =>
           annotation_file = "untouched" /\ feature_file = "untouched"
    /\ exc \in DumpErrors =>
           /\ annotation_file = "truncated"
           /\ feature_file = (IF outputFile = "same_file" THEN "truncated"
                                                            ELSE "untouched")
    /\ exc \in CsvOpenErrors =>
           /\ annotation_file = AnnotationAsLeft
           /\ feature_file = (IF outputFile = "same_file" THEN "document"
                                                            ELSE "untouched")
    /\ exc \in CsvWriteErrors =>
           /\ feature_file = "truncated"
           /\ annotation_file = (IF outputFile = "same_file"
                                     THEN "truncated" ELSE AnnotationAsLeft)
    /\ "truncated" \in {annotation_file, feature_file} =>
           exc \in DumpErrors \cup CsvWriteErrors

\* C14 witness: in a run whose two output paths name one file json.dump
\* raised after aggregation; the file is left truncated, holding neither
\* the document nor the table.
C14_Witness ==
    /\ pc = "exit_error"
    /\ exc \in DumpErrors
    /\ args.outputNucleiAnnotationFile
    /\ nuclei_fdata # << >>
    /\ outputFile = "same_file"
    /\ annotation_file = "truncated"
    /\ feature_file = "truncated"
    /\ feature_file_writes = 0

\* Line 146-161 have run: it_kwargs is built.
KwargsBuilt ==
    \/ pc \in {"fgnd_frac", "iterate"}
    \/ DispatchDone
    \/ pc = "exit_error" /\ exc = "TypeError_getSingleTile"

\* C15: once it_kwargs is built, no region is handed to the tile source if
\* and only if all four entries of analysis_roi are -1; otherwise the region
\* is analysis_roi's left, top, width and height unchanged, and every
\* dispatched task carries the very same it_kwargs.
C15_RegionSelection ==
    KwargsBuilt =>
        /\ process_whole_image <=> (\A i \in 1..4 : args.analysis_roi[i] = -1)
        /\ it_kwargs.present <=> ~process_whole_image
        /\ it_kwargs.present =>
               << it_kwargs.left, it_kwargs.top,
                  it_kwargs.width, it_kwargs.height >> = args.analysis_roi
        /\ \A i \in DOMAIN tile_result_list :
               tile_result_list[i].it_kwargs = it_kwargs

\* C15 witness: a run over the region [0, 0, 1, 1] dispatched a tile and
\* reached its end.
C15_Witness ==
    /\ pc = "done"
    /\ args.analysis_roi = << 0, 0, 1, 1 >>
    /\ it_kwargs.present
    /\ tile_result_list # << >>

\* C16: in a whole-slide run, once the loop has ended, the number of
\* foreground tiles reported is the number of tasks submitted.
C16_ReportedEqualsSubmitted ==
    (is_wsi /\ DispatchDone) => num_fgnd_tiles = Len(tile_result_list)

C18_IndexReset ==
    Aggregated =>
        \A i \in DOMAIN nuclei_fdata : nuclei_fdata[i].index = i - 1

\* C18 witness: the second row of the aggregated table is the first row of
\* its tile, whose own index was 0.
C18_Witness ==
    /\ Aggregated
    /\ Len(nuclei_fdata) >= 2
    /\ nuclei_fdata[2].k = 1
    /\ nuclei_fdata[2].index = 1

\* The column name starts with the prefix and holds it exactly once.
PrefixedOnce(c) ==
    /\ c # << >>
    /\ c[1] = "Feature."
    /\ Cardinality({i \in DOMAIN c : c[i] = "Feature."}) = 1

\* C19: every column of every tile result, of the aggregated feature table
\* and of the written feature file carries the prefix exactly once, and the
\* aggregated table and the file have the very columns of every tile result;
\* there is no header where no table was written.
C19_PrefixedOnce ==
    /\ \A j \in DOMAIN finished :
           finished[j].ok =>
               /\ Len(finished[j].columns) = Len(RawColumns)
               /\ \A i \in DOMAIN finished[j].columns :
                      PrefixedOnce(finished[j].columns[i])
    /\ Aggregated =>
           /\ \A i \in DOMAIN nuclei_fdata_columns :
                  PrefixedOnce(nuclei_fdata_columns[i])
           /\ \A j \in DOMAIN finished :
                  finished[j].columns = nuclei_fdata_columns
    /\ feature_file = "table" => feature_file_columns = nuclei_fdata_columns
    /\ feature_file # "table" => feature_file_columns = << >>

\* C19 witness: a run of two tiles wrote its feature file.
C19_Witness ==
    /\ pc = "done"
    /\ Len(tile_result_list) >= 2
    /\ feature_file_columns # << >>

====
